---- MODULE Spec2Model ----
(***************************************************************************)
(* The fallback-escalation machine of src/src/NextImageFallback.tsx.       *)
(*                                                                         *)
(* One mounted NextImageFallback instance.  Its props (src, fallbackSrc,   *)
(* alternativeFallback and the optional callbacks) are chosen when the     *)
(* instance mounts; only src changes afterwards.  Its React state is       *)
(* currentSrc, hasTriedFallback and showAlternativeFallback.  The host     *)
(* handles one event at a time, and every handler runs against the state   *)
(* of the latest render; the effect of a render that changed src runs      *)
(* before the next image event is handled.                                 *)
(*                                                                         *)
(* The retry-with-backoff machine of RetryImage and of the useImageRetry   *)
(* hook follows it, as a second instance with its own state and its own    *)
(* specification, SpecRetry.                                               *)
(*                                                                         *)
(* Further specifications: SpecAll (an instance of either machine),        *)
(* SpecPlaceholder (the placeholder and its width, height and message      *)
(* props), SpecPreload (preloadImage and isImageAccessible of utils.ts),   *)
(* SpecRetryLive (RetryImage when every load attempt fails) and SpecPair   *)
(* (RetryImage and useImageRetry given the same events).                   *)
(***************************************************************************)
EXTENDS Integers, Sequences, FiniteSets, TLC

\* Image events handled between two changes of the src prop.
MaxEvents == 4

\* Changes of the src prop after the mount.
MaxSrcChanges == 2

\* An optional prop that was not passed.
Undefined == "undefined"

\* Values the src prop takes; the last one is also the fallback source, so
\* that src = fallbackSrc happens.
SrcValues == {"/primary.png", "/new.png", "/fallback.png"}

FallbackSrcValues == {Undefined, "/fallback.png"}

AlternativeFallbackType == {"gradient", "waves", "mono"}

\* naturalWidth reported by a load completion: 0 is a broken image.
NaturalWidths == {0, 200}

\* The caller's optional callbacks.
CallbackNames == {"onFallback", "onAlternativeFallback", "onError", "onLoadingComplete"}

VARIABLES
    src,                      \* prop
    fallbackSrc,              \* prop, or Undefined
    alternativeFallback,      \* prop, or Undefined
    supplied,                 \* the callbacks the caller passed
    currentSrc,               \* useState(src)
    hasTriedFallback,         \* useState(false)
    showAlternativeFallback,  \* useState(false)
    effectPending,            \* the [src] effect of the last render has yet to run
    lastEvent,                \* the event handled last
    calls,                    \* the callbacks the last event invoked, in order
    fallbackCalls,            \* onFallback invocations since src last changed
    alternativeCalls,         \* onAlternativeFallback invocations since src last changed
    events,                   \* image events handled since src last changed
    failures,                 \* of these, the failures (error, or naturalWidth 0)
    srcChanges                \* changes of the src prop since the mount

\* The retry machine: one RetryImage, or one component using useImageRetry.
VARIABLES
    impl,                 \* "RetryImage" or "useImageRetry"
    srcProp,              \* RetryImage's src prop / the hook's initialSrc
    retryFallbackSrc,     \* RetryImage's fallbackSrc prop, or Undefined
    config,               \* DEFAULT_RETRY_CONFIG overridden by retryConfig
    retrySupplied,        \* the callbacks passed to RetryImage
    loadingComponent,     \* a loadingComponent was passed to RetryImage
    retryCurrentSrc,      \* RetryImage's currentSrc / the hook's src
    attempts,             \* useState(0)
    isRetrying,           \* useState(false)
    hasLoaded,            \* useState(false)
    hasExhaustedRetries,  \* useState(false)
    error,                \* the hook's error: "null" or "Error"
    originalSrc,          \* useRef: the string src, or Undefined
    timeoutRef,           \* useRef: the last timer handle, 0 for null
    timers,               \* the host's pending timers
    mounted,              \* the instance is mounted
    retryLast,            \* the event handled last
    retryCalls,           \* the callbacks the last event invoked, in order
    exhaustedCalls,       \* onRetriesExhausted invocations since the last reset
    failuresSinceReset,   \* failures reported since the last reset
    epoch,                \* resets (src changes, reset() calls) so far
    handled,              \* image events handled so far
    nextId                \* timers started so far

\* The props NextImageFallback hands to its placeholder.
VARIABLES
    width,                \* prop: a number, a string, or not passed
    height,               \* prop: a number, a string, or not passed
    altErrorMessage       \* prop: the message, or Undefined

\* One call of preloadImage, made directly or through isImageAccessible.
VARIABLES
    caller,               \* "preloadImage" or "isImageAccessible"
    preloadArgs,          \* [src, timeout] as the call was given them
    promise,              \* the promise preloadImage returned
    timeoutPending,       \* the timer of timeoutId has neither fired nor been cleared
    imgEvents,            \* what has happened so far, in order
    accessible            \* what isImageAccessible resolved to, or "pending"

\* A useImageRetry instance given the events a RetryImage instance handles.
VARIABLES
    hook                  \* its state, its pending timers, the events it was given

nifVars == <<src, fallbackSrc, alternativeFallback, supplied, currentSrc,
             hasTriedFallback, showAlternativeFallback, effectPending, lastEvent,
             calls, fallbackCalls, alternativeCalls, events, failures, srcChanges,
             width, height, altErrorMessage>>

retryProps == <<impl, retryFallbackSrc, config, retrySupplied, loadingComponent>>

retryVars == <<retryProps, srcProp, retryCurrentSrc, attempts, isRetrying, hasLoaded,
               hasExhaustedRetries, error, originalSrc, timeoutRef, timers, mounted,
               retryLast, retryCalls, exhaustedCalls, failuresSinceReset, epoch,
               handled, nextId>>

preloadVars == <<caller, preloadArgs, promise, timeoutPending, imgEvents, accessible>>

vars == <<nifVars, retryVars, preloadVars, hook>>

props == <<fallbackSrc, alternativeFallback, supplied, width, height, altErrorMessage>>

\* JavaScript truthiness of an optional string prop.
Truthy(p) == p # Undefined

\* `if (cb) cb()`: the callback is invoked when the caller passed it.
Invoke(cb) == IF cb \in supplied THEN <<cb>> ELSE <<>>

Count(seq, cb) == Cardinality({i \in 1..Len(seq) : seq[i] = cb})

\* The render: the placeholder replaces the image, and with it the handlers.
PlaceholderRendered == showAlternativeFallback /\ Truthy(alternativeFallback)

\* A render that keeps the image mounted while the placeholder is shown.
ImageRendered_Always == TRUE

ImageRendered == ~(showAlternativeFallback /\ Truthy(alternativeFallback))

\* The stage of the machine, read off the state.
Stage ==
    IF PlaceholderRendered THEN "ShowingStaticPlaceholder"
    ELSE IF hasTriedFallback THEN "UsingFallback"
    ELSE "Primary"

\* A source as the image is given it: a url, and the cache-busting marker
\* a retry appended to it (separator and timestamp), if any.
PlainSrc(url) == [url |-> url, sep |-> "", stamp |-> 0]

DEFAULT_RETRY_CONFIG ==
    [maxRetries |-> 3, retryDelay |-> 1000, exponentialBackoff |-> TRUE, maxDelay |-> 10000]

NoRetryEvent == [kind |-> "mount", delay |-> 0, timerEpoch |-> 0]

\* A width or height prop: a number, a string such as "50", or not passed.
Number(n) == [type |-> "number", value |-> n]

NumericString(n) == [type |-> "string", value |-> n]

NotPassed == [type |-> "undefined", value |-> 0]

DEFAULT_ERROR_MESSAGE == "Image unavailable"

\* The placeholder's props while the specification is not about them.
\* useImageRetry after its first render: the useState initial values, no
\* timer started.  `seen` counts the events the instance was given.
useImageRetry_initial ==
    [attempts |-> 0, isRetrying |-> FALSE, hasLoaded |-> FALSE,
     hasExhaustedRetries |-> FALSE, pending |-> 0, seen |-> 0]

\* No event is given to the second instance.
HookIdle == hook = useImageRetry_initial

PlaceholderPropsIdle ==
    /\ width = NotPassed
    /\ height = NotPassed
    /\ altErrorMessage = Undefined

\* No call of preloadImage.
PreloadIdle ==
    /\ caller = "none"
    /\ preloadArgs = [src |-> "", timeout |-> 0]
    /\ promise = [state |-> "none", msg |-> "", src |-> ""]
    /\ timeoutPending = FALSE
    /\ imgEvents = <<>>
    /\ accessible = "pending"

\* The retry machine while the specification is about NextImageFallback:
\* not mounted, nothing pending.
RetryIdle ==
    /\ impl = "RetryImage"
    /\ srcProp = "https://example.com/image1.jpg"
    /\ retryFallbackSrc = Undefined
    /\ config = DEFAULT_RETRY_CONFIG
    /\ retrySupplied = {}
    /\ loadingComponent = FALSE
    /\ retryCurrentSrc = PlainSrc("https://example.com/image1.jpg")
    /\ attempts = 0
    /\ isRetrying = FALSE
    /\ hasLoaded = FALSE
    /\ hasExhaustedRetries = FALSE
    /\ error = "null"
    /\ originalSrc = "https://example.com/image1.jpg"
    /\ timeoutRef = 0
    /\ timers = {}
    /\ mounted = FALSE
    /\ retryLast = NoRetryEvent
    /\ retryCalls = <<>>
    /\ exhaustedCalls = 0
    /\ failuresSinceReset = 0
    /\ epoch = 0
    /\ handled = 0
    /\ nextId = 0

Init ==
    /\ HookIdle
    /\ RetryIdle
    /\ PreloadIdle
    /\ PlaceholderPropsIdle
    /\ src \in SrcValues
    /\ fallbackSrc \in FallbackSrcValues
    /\ alternativeFallback \in AlternativeFallbackType \cup {Undefined}
    /\ supplied \in SUBSET CallbackNames
    /\ currentSrc = src
    /\ hasTriedFallback = FALSE
    /\ showAlternativeFallback = FALSE
    /\ effectPending = TRUE
    /\ lastEvent = [kind |-> "mount", naturalWidth |-> 0]
    /\ calls = <<>>
    /\ fallbackCalls = 0
    /\ alternativeCalls = 0
    /\ events = 0
    /\ failures = 0
    /\ srcChanges = 0

\* TryFallback without the two guards that make the switch happen once.
TryFallback_Unguarded == Truthy(fallbackSrc)

\* BothFailed without the check that a placeholder was asked for.
BothFailed_AnyConfig == hasTriedFallback

\* BothFailed tested on the flag it is about to set.
BothFailed_NeverShown == showAlternativeFallback /\ Truthy(alternativeFallback)

\* NoFallbackProvided without the check that a placeholder was asked for.
NoFallbackProvided_AnyConfig == ~Truthy(fallbackSrc)

\* The conditions of handleError's three branches.
TryFallback == Truthy(fallbackSrc) /\ ~hasTriedFallback /\ currentSrc # fallbackSrc

BothFailed == hasTriedFallback /\ Truthy(alternativeFallback)

NoFallbackProvided == ~Truthy(fallbackSrc) /\ Truthy(alternativeFallback)

\* What handleError does to the state, and the callbacks it invokes.
handleErrorOutcome ==
    IF TryFallback THEN
        [currentSrc |-> fallbackSrc, hasTriedFallback |-> TRUE,
         showAlternativeFallback |-> showAlternativeFallback,
         calls |-> Invoke("onFallback") \o Invoke("onError")]
    ELSE IF BothFailed THEN
        [currentSrc |-> currentSrc, hasTriedFallback |-> hasTriedFallback,
         showAlternativeFallback |-> TRUE,
         calls |-> Invoke("onAlternativeFallback") \o Invoke("onError")]
    ELSE IF NoFallbackProvided THEN
        [currentSrc |-> currentSrc, hasTriedFallback |-> hasTriedFallback,
         showAlternativeFallback |-> TRUE,
         calls |-> Invoke("onAlternativeFallback") \o Invoke("onError")]
    ELSE
        [currentSrc |-> currentSrc, hasTriedFallback |-> hasTriedFallback,
         showAlternativeFallback |-> showAlternativeFallback,
         calls |-> Invoke("onError")]

\* A handleLoadingComplete that takes a good load as the end of the episode
\* and clears hasTriedFallback.
handleLoadingCompleteOutcome_ClearsOnLoad(naturalWidth) ==
    IF naturalWidth = 0 /\ TryFallback THEN
        [currentSrc |-> fallbackSrc, hasTriedFallback |-> TRUE,
         showAlternativeFallback |-> showAlternativeFallback,
         calls |-> Invoke("onFallback")]
    ELSE IF naturalWidth = 0 /\ BothFailed THEN
        [currentSrc |-> currentSrc, hasTriedFallback |-> hasTriedFallback,
         showAlternativeFallback |-> TRUE,
         calls |-> Invoke("onAlternativeFallback")]
    ELSE
        [currentSrc |-> currentSrc, hasTriedFallback |-> naturalWidth = 0 /\ hasTriedFallback,
         showAlternativeFallback |-> showAlternativeFallback,
         calls |-> Invoke("onLoadingComplete")]

\* What handleLoadingComplete does with a result of the given naturalWidth.
handleLoadingCompleteOutcome(naturalWidth) ==
    IF naturalWidth = 0 /\ TryFallback THEN
        [currentSrc |-> fallbackSrc, hasTriedFallback |-> TRUE,
         showAlternativeFallback |-> showAlternativeFallback,
         calls |-> Invoke("onFallback")]
    ELSE IF naturalWidth = 0 /\ BothFailed THEN
        [currentSrc |-> currentSrc, hasTriedFallback |-> hasTriedFallback,
         showAlternativeFallback |-> TRUE,
         calls |-> Invoke("onAlternativeFallback")]
    ELSE
        [currentSrc |-> currentSrc, hasTriedFallback |-> hasTriedFallback,
         showAlternativeFallback |-> showAlternativeFallback,
         calls |-> Invoke("onLoadingComplete")]

\* An image event can be handled: the image is rendered and no effect is due.
CanHandle == ImageRendered /\ ~effectPending /\ events < MaxEvents

\* A failure is an error event or a load completion of naturalWidth 0.
IsFailure(event) ==
    \/ event.kind = "error"
    \/ event.kind = "loadingComplete" /\ event.naturalWidth = 0

Apply(outcome, event) ==
    /\ currentSrc' = outcome.currentSrc
    /\ hasTriedFallback' = outcome.hasTriedFallback
    /\ showAlternativeFallback' = outcome.showAlternativeFallback
    /\ calls' = outcome.calls
    /\ fallbackCalls' = fallbackCalls + Count(outcome.calls, "onFallback")
    /\ alternativeCalls' = alternativeCalls + Count(outcome.calls, "onAlternativeFallback")
    /\ lastEvent' = event
    /\ events' = events + 1
    /\ failures' = failures + (IF IsFailure(event) THEN 1 ELSE 0)
    /\ UNCHANGED <<src, props, effectPending, srcChanges, retryVars, preloadVars, hook>>

\* The image's error event.
handleError ==
    /\ CanHandle
    /\ Apply(handleErrorOutcome, [kind |-> "error", naturalWidth |-> 0])

\* The image's loading-complete event.
handleLoadingComplete ==
    /\ CanHandle
    /\ \E naturalWidth \in NaturalWidths :
          Apply(handleLoadingCompleteOutcome(naturalWidth),
                [kind |-> "loadingComplete", naturalWidth |-> naturalWidth])

\* The parent renders the component with another src.
ChangeSrc ==
    /\ ~effectPending
    /\ srcChanges < MaxSrcChanges
    /\ \E s \in SrcValues \ {src} : src' = s
    /\ effectPending' = TRUE
    /\ lastEvent' = [kind |-> "srcChange", naturalWidth |-> 0]
    /\ calls' = <<>>
    /\ fallbackCalls' = 0
    /\ alternativeCalls' = 0
    /\ events' = 0
    /\ failures' = 0
    /\ srcChanges' = srcChanges + 1
    /\ UNCHANGED <<props, currentSrc, hasTriedFallback, showAlternativeFallback,
                   retryVars, preloadVars, hook>>

\* The effect as it was before showAlternativeFallback existed: it leaves
\* the placeholder up.
ResetEffect_KeepsPlaceholder ==
    /\ effectPending
    /\ currentSrc' = src
    /\ hasTriedFallback' = FALSE
    /\ effectPending' = FALSE
    /\ lastEvent' = [kind |-> "reset", naturalWidth |-> 0]
    /\ UNCHANGED <<src, props, showAlternativeFallback, calls, fallbackCalls,
                   alternativeCalls, events, failures, srcChanges, retryVars,
                   preloadVars, hook>>

\* useEffect(..., [src]): runs after the mount and after every render that
\* changed src.
ResetEffect ==
    /\ effectPending
    /\ currentSrc' = src
    /\ hasTriedFallback' = FALSE
    /\ showAlternativeFallback' = FALSE
    /\ effectPending' = FALSE
    /\ lastEvent' = [kind |-> "reset", naturalWidth |-> 0]
    /\ UNCHANGED <<src, props, calls, fallbackCalls, alternativeCalls, events,
                   failures, srcChanges, retryVars, preloadVars, hook>>

Next ==
    \/ handleError
    \/ handleLoadingComplete
    \/ ChangeSrc
    \/ ResetEffect

Spec == Init /\ [][Next]_vars

TypeOK ==
    /\ src \in SrcValues
    /\ fallbackSrc \in FallbackSrcValues
    /\ alternativeFallback \in AlternativeFallbackType \cup {Undefined}
    /\ supplied \subseteq CallbackNames
    /\ currentSrc \in SrcValues
    /\ hasTriedFallback \in BOOLEAN
    /\ showAlternativeFallback \in BOOLEAN
    /\ effectPending \in BOOLEAN
    /\ fallbackCalls \in 0..MaxEvents
    /\ alternativeCalls \in 0..MaxEvents
    /\ events \in 0..MaxEvents
    /\ failures \in 0..events
    /\ srcChanges \in 0..MaxSrcChanges

(***************************************************************************)
(* Steps and configurations the properties speak of.                       *)
(***************************************************************************)

\* The step handles an image event.
EventStep == events' = events + 1

\* The step handles a failure.
FailureStep == EventStep /\ IsFailure(lastEvent')

\* The step is the reset that follows a change of src (or the mount).
ResetStep == effectPending /\ ~effectPending'

StateUnchanged == UNCHANGED <<currentSrc, hasTriedFallback, showAlternativeFallback>>

FallbackDiffers == Truthy(fallbackSrc) /\ fallbackSrc # src

\* C1: between two changes of the src prop, whatever mix of error events
\* and zero-width load completions is handled, onFallback is invoked at most
\* once.
C1_OnFallbackAtMostOnce == fallbackCalls <= 1

\* Three failures of both kinds were handled and onFallback fired once.
C1_Witness ==
    /\ fallbackCalls = 1
    /\ failures >= 3
    /\ lastEvent.kind = "loadingComplete"
    /\ hasTriedFallback

\* C2: between two changes of the src prop onAlternativeFallback is invoked
\* at most once, and once the placeholder is shown nothing but the reset for
\* a new src changes the state or notifies again: the image and its
\* handlers are no longer rendered, so no failure is handled there.
C2_OnAlternativeAtMostOnce ==
    /\ [](alternativeCalls <= 1)
    /\ [][PlaceholderRendered =>
            \/ ResetStep
            \/ /\ StateUnchanged
               /\ ~EventStep
               /\ alternativeCalls' <= alternativeCalls
               /\ fallbackCalls' <= fallbackCalls]_vars

\* The placeholder is shown after the fallback failed too, and the callback
\* fired once.
C2_Witness ==
    /\ PlaceholderRendered
    /\ hasTriedFallback
    /\ alternativeCalls = 1
    /\ failures = 2

\* C3: with fallbackSrc set, different from src, and no alternativeFallback,
\* the first failure makes fallbackSrc the active source and every later
\* failure leaves currentSrc, hasTriedFallback and showAlternativeFallback
\* as they are: the active source stays fallbackSrc.
C3_FallbackThenStay ==
    [][(FallbackDiffers /\ ~Truthy(alternativeFallback) /\ FailureStep) =>
         /\ currentSrc' = fallbackSrc
         /\ hasTriedFallback'
         /\ ~showAlternativeFallback'
         /\ failures >= 1 => StateUnchanged]_vars

\* A third failure was handled and the fallback is still the active source.
C3_Witness ==
    /\ FallbackDiffers
    /\ ~Truthy(alternativeFallback)
    /\ failures >= 3
    /\ currentSrc = fallbackSrc
    /\ Stage = "UsingFallback"

\* C4: with fallbackSrc (different from src) and alternativeFallback both
\* set, the first failure switches the active source to fallbackSrc and the
\* next failure shows the placeholder in place of the image and invokes
\* onAlternativeFallback.
C4_FallbackThenPlaceholder ==
    [][(FallbackDiffers /\ Truthy(alternativeFallback) /\ FailureStep) =>
         /\ failures = 0 =>
               /\ currentSrc' = fallbackSrc
               /\ Stage' = "UsingFallback"
         /\ failures = 1 =>
               /\ Stage' = "ShowingStaticPlaceholder"
               /\ currentSrc' = fallbackSrc
               /\ "onAlternativeFallback" \in supplied =>
                     /\ Count(calls', "onAlternativeFallback") = 1
                     /\ alternativeCalls' = 1]_vars

\* The second failure, a zero-width load completion, showed the placeholder.
C4_Witness ==
    /\ FallbackDiffers
    /\ Stage = "ShowingStaticPlaceholder"
    /\ failures = 2
    /\ lastEvent = [kind |-> "loadingComplete", naturalWidth |-> 0]
    /\ calls = <<"onAlternativeFallback">>

Invoked(cb) == Count(calls, cb) = 1

\* C5: with no fallbackSrc and alternativeFallback set, the first failure
\* handled in the Primary stage shows the placeholder at once and invokes
\* onAlternativeFallback.
C5_ImmediatePlaceholder ==
    [][(~Truthy(fallbackSrc) /\ Truthy(alternativeFallback)
          /\ Stage = "Primary" /\ failures = 0 /\ FailureStep) =>
         /\ Stage' = "ShowingStaticPlaceholder"
         /\ "onAlternativeFallback" \in supplied => Invoked("onAlternativeFallback")']_vars

\* C6: in the Primary stage, when fallbackSrc is unset or equal to src and
\* alternativeFallback is set, a failure shows the placeholder directly and
\* invokes onAlternativeFallback.
C6_PlaceholderWithoutUsableFallback ==
    [][(~FallbackDiffers /\ Truthy(alternativeFallback)
          /\ Stage = "Primary" /\ FailureStep) =>
         /\ Stage' = "ShowingStaticPlaceholder"
         /\ "onAlternativeFallback" \in supplied => Invoked("onAlternativeFallback")']_vars

IsInternal(cb) == cb \in {"onFallback", "onAlternativeFallback"}

\* The part of an outcome the machine owns: the next state and the
\* notifications of the machine itself.
Internal(outcome) ==
    [currentSrc |-> outcome.currentSrc,
     hasTriedFallback |-> outcome.hasTriedFallback,
     showAlternativeFallback |-> outcome.showAlternativeFallback,
     notifications |-> SelectSeq(outcome.calls, IsInternal)]

\* C7: in every stage and configuration, a load completion of
\* naturalWidth 0 and an error event give the same next state (stage and
\* active source) and the same onFallback / onAlternativeFallback
\* notifications.
C7_ZeroWidthLikeError ==
    (ImageRendered /\ ~effectPending) =>
        Internal(handleLoadingCompleteOutcome(0)) = Internal(handleErrorOutcome)

\* C8: every error event invokes the caller's onError exactly once and
\* every loading-complete event invokes the caller's onLoadingComplete
\* exactly once, whether or not the event moved the machine.
C8_CallerCallbacksNeverSuppressed ==
    [][EventStep =>
         /\ (lastEvent'.kind = "error" /\ "onError" \in supplied) =>
               Invoked("onError")'
         /\ (lastEvent'.kind = "loadingComplete" /\ "onLoadingComplete" \in supplied) =>
               Invoked("onLoadingComplete")']_vars

\* C9: after src changed, from whichever stage, the reset leaves the machine
\* in Primary with the new src as active source, hasTriedFallback false and
\* the placeholder hidden; for the new source onFallback and
\* onAlternativeFallback again fire at most once each.
C9_SrcChangeResets ==
    /\ [][ResetStep =>
            /\ Stage' = "Primary"
            /\ currentSrc' = src'
            /\ ~hasTriedFallback'
            /\ ~showAlternativeFallback']_vars
    /\ [][src' # src => effectPending' /\ fallbackCalls' = 0 /\ alternativeCalls' = 0]_vars
    /\ [](srcChanges >= 1 => fallbackCalls <= 1 /\ alternativeCalls <= 1)

\* After a change of src both notifications fired again, once each, for the
\* new source.
C9_Witness ==
    /\ srcChanges >= 1
    /\ ~effectPending
    /\ src = "/new.png"
    /\ fallbackCalls = 1
    /\ alternativeCalls = 1
    /\ Stage = "ShowingStaticPlaceholder"

StageRank ==
    CASE Stage = "Primary" -> 0
      [] Stage = "UsingFallback" -> 1
      [] Stage = "ShowingStaticPlaceholder" -> 2

\* C10: no image event moves the stage backward or turns hasTriedFallback
\* or showAlternativeFallback from true to false; a step that does is the
\* reset, which only follows the mount or a change of src.
C10_StageOnlyAdvances ==
    [][/\ ~ResetStep =>
            /\ StageRank' >= StageRank
            /\ hasTriedFallback => hasTriedFallback'
            /\ showAlternativeFallback => showAlternativeFallback'
       /\ ResetStep => lastEvent.kind \in {"mount", "srcChange"}]_vars

\* In UsingFallback a good load was handled and the stage stayed.
C10_Witness ==
    /\ Stage = "UsingFallback"
    /\ lastEvent = [kind |-> "loadingComplete", naturalWidth |-> 200]
    /\ events >= 2
    /\ currentSrc = fallbackSrc

\* The caller's own callback of an event: onError for an error event,
\* onLoadingComplete for a load completion.
OwnCallback(event) == IF event.kind = "error" THEN "onError" ELSE "onLoadingComplete"

MaxRetryEvents == 4

\* Resets in one run: changes of RetryImage's src prop, calls of the hook's
\* reset().
MaxResets == 2

Implementations == {"RetryImage", "useImageRetry"}

\* A static import is an object, not a string.
StaticImports == {"static:hero"}

StringSrcValues == {"https://example.com/image1.jpg", "https://example.com/image2.jpg?v=2"}

\* The string sources that contain '?'.
UrlsWithQuery == {"https://example.com/image2.jpg?v=2"}

RetrySrcValues == StringSrcValues \cup StaticImports

RetryFallbackSrcValues == {Undefined, "https://example.com/fallback.jpg"}

\* { ...DEFAULT_RETRY_CONFIG, ...retryConfig } for the retryConfig props tried.
RetryConfigs ==
    { DEFAULT_RETRY_CONFIG,
      [DEFAULT_RETRY_CONFIG EXCEPT !.maxRetries = 0],
      [DEFAULT_RETRY_CONFIG EXCEPT !.maxRetries = 1],
      [DEFAULT_RETRY_CONFIG EXCEPT !.retryDelay = 500, !.exponentialBackoff = FALSE],
      [DEFAULT_RETRY_CONFIG EXCEPT !.maxDelay = 1500] }

RetryCallbackNames == {"onError", "onRetry", "onRetriesExhausted", "onSuccess"}

\* The caller passes all the callbacks or none.
RetrySuppliedChoices == {RetryCallbackNames, {}}

\* Date.now() when a timer fires.
Timestamps == {1700000000, 1700000001}

\* typeof src === 'string' ? src : undefined
StringOrUndefined(s) == IF s \in StaticImports THEN Undefined ELSE s

Min(a, b) == IF a <= b THEN a ELSE b

\* Math.pow(base, exponent) for a natural exponent.
RECURSIVE Pow(_, _)
Pow(base, exponent) == IF exponent <= 0 THEN 1 ELSE base * Pow(base, exponent - 1)

\* calculateDelay doubling from the first attempt on.
calculateDelay_FromAttempt(attempt, baseDelay, exponential, maxDelay) ==
    IF ~exponential THEN baseDelay
    ELSE Min(baseDelay * Pow(2, attempt), maxDelay)

calculateDelay(attempt, baseDelay, exponential, maxDelay) ==
    IF ~exponential THEN baseDelay
    ELSE Min(baseDelay * Pow(2, attempt - 1), maxDelay)

\* originalSrc.current?.includes('?') ? '&' : '?'
Separator(original) == IF original \in UrlsWithQuery THEN "&" ELSE "?"

\* `${originalSrc.current}${separator}_retry=${Date.now()}`
RetryUrl(original, now) == [url |-> original, sep |-> Separator(original), stamp |-> now]

\* `cb?.(...)`: the call is made when the caller passed the callback.
Notify(cb, a, b, state) ==
    IF cb \in retrySupplied
    THEN << [cb |-> cb, a |-> a, b |-> b, isRetrying |-> state.isRetrying,
             hasLoaded |-> state.hasLoaded,
             hasExhaustedRetries |-> state.hasExhaustedRetries] >>
    ELSE <<>>

NoState == [isRetrying |-> FALSE, hasLoaded |-> FALSE, hasExhaustedRetries |-> FALSE]

CountCalls(seq, cb) == Cardinality({i \in 1..Len(seq) : seq[i].cb = cb})

\* NextImageFallback while the specification is about the retry machine.
NifIdle ==
    /\ src = "/primary.png"
    /\ fallbackSrc = Undefined
    /\ alternativeFallback = Undefined
    /\ supplied = {}
    /\ currentSrc = "/primary.png"
    /\ hasTriedFallback = FALSE
    /\ showAlternativeFallback = FALSE
    /\ effectPending = FALSE
    /\ lastEvent = [kind |-> "mount", naturalWidth |-> 0]
    /\ calls = <<>>
    /\ fallbackCalls = 0
    /\ alternativeCalls = 0
    /\ events = 0
    /\ failures = 0
    /\ srcChanges = 0
    /\ PlaceholderPropsIdle

\* The state after the first render.  The hook takes a string and has no
\* fallback, callbacks or loading component.
RetryInit ==
    /\ HookIdle
    /\ NifIdle
    /\ PreloadIdle
    /\ impl \in Implementations
    /\ config \in RetryConfigs
    /\ IF impl = "RetryImage"
       THEN /\ srcProp \in RetrySrcValues
            /\ retryFallbackSrc \in RetryFallbackSrcValues
            /\ retrySupplied \in RetrySuppliedChoices
            /\ loadingComponent \in BOOLEAN
       ELSE /\ srcProp \in StringSrcValues
            /\ retryFallbackSrc = Undefined
            /\ retrySupplied = {}
            /\ loadingComponent = FALSE
    /\ retryCurrentSrc = PlainSrc(StringOrUndefined(srcProp))
    /\ attempts = 0
    /\ isRetrying = FALSE
    /\ hasLoaded = FALSE
    /\ hasExhaustedRetries = FALSE
    /\ error = "null"
    /\ originalSrc = StringOrUndefined(srcProp)
    /\ timeoutRef = 0
    /\ timers = {}
    /\ mounted = TRUE
    /\ retryLast = NoRetryEvent
    /\ retryCalls = <<>>
    /\ exhaustedCalls = 0
    /\ failuresSinceReset = 0
    /\ epoch = 0
    /\ handled = 0
    /\ nextId = 0

\* const imageSrc = currentSrc || src
imageSrc == IF retryCurrentSrc = PlainSrc(Undefined) THEN PlainSrc(srcProp) ELSE retryCurrentSrc

\* The retry indicator shown whatever showRetryIndicator says.
renderRetryIndicator_IgnoresFlag(showRetryIndicator, retryIndicator) ==
    IF ~isRetrying
    THEN [kind |-> "null", states |-> {}]
    ELSE IF retryIndicator
         THEN [kind |-> "retryIndicator", states |-> {<<"attempts", attempts>>}]
         ELSE [kind |-> "overlay",
               states |-> {<<"attempts", attempts>>, <<"maxRetries", config.maxRetries>>}]

\* renderRetryIndicator: null, the caller's retryIndicator(getRetryState()),
\* or the overlay "Retrying... (attempts/maxRetries)".  `states` is what the
\* component puts into the indicator.
renderRetryIndicator(showRetryIndicator, retryIndicator) ==
    IF ~showRetryIndicator \/ ~isRetrying
    THEN [kind |-> "null", states |-> {}]
    ELSE IF retryIndicator
         THEN [kind |-> "retryIndicator", states |-> {<<"attempts", attempts>>}]
         ELSE [kind |-> "overlay",
               states |-> {<<"attempts", attempts>>, <<"maxRetries", config.maxRetries>>}]

\* What RetryImage displays besides the image: the loading component in
\* place of the image, or the retry indicator over it.
RetryImage_indicator(showRetryIndicator, retryIndicator) ==
    IF isRetrying /\ loadingComponent
    THEN [kind |-> "loadingComponent", states |-> {}]
    ELSE renderRetryIndicator(showRetryIndicator, retryIndicator)

\* RetryImage renders the image unless it shows the loading component.
RetryImageRendered == ~(isRetrying /\ loadingComponent)

\* An image event of the instance can be handled.
CanHandleRetryEvent ==
    /\ mounted
    /\ handled < MaxRetryEvents
    /\ impl = "RetryImage" => RetryImageRendered

\* timeoutRef.current = setTimeout(callback, delay)
StartTimer(delay) ==
    /\ nextId' = nextId + 1
    /\ timers' = timers \cup {[id |-> nextId + 1, delay |-> delay, epoch |-> epoch]}
    /\ timeoutRef' = nextId + 1

\* A retry after every failure.
ShouldRetry_Always(newAttempts) == TRUE

\* A retry for the failure that reaches maxRetries as well.
ShouldRetry_Inclusive(newAttempts) == newAttempts <= config.maxRetries

\* RetryImage.handleError retries while newAttempts < config.maxRetries.
ShouldRetry(newAttempts) == newAttempts < config.maxRetries

\* useImageRetry.retry gives up when newAttempts >= finalConfig.maxRetries.
RetriesExhausted(newAttempts) == newAttempts >= config.maxRetries

\* onRetry told the attempt count before the failure.
onRetryCall_PreviousAttempt(newAttempts) ==
    Notify("onRetry", newAttempts - 1, config.maxRetries, NoState)

\* onRetry?.(newAttempts, config.maxRetries)
onRetryCall(newAttempts) == Notify("onRetry", newAttempts, config.maxRetries, NoState)

\* The exhausted branch telling nobody.
onRetriesExhaustedCall_Silent == <<>>

\* onRetriesExhausted?.()
onRetriesExhaustedCall == Notify("onRetriesExhausted", 0, 0, NoState)

\* The exhausted branch leaving the current source alone.
ExhaustedSrc_KeepsCurrent == retryCurrentSrc

\* if (fallbackSrc) setCurrentSrc(fallbackSrc)
ExhaustedSrc == IF Truthy(retryFallbackSrc) THEN PlainSrc(retryFallbackSrc) ELSE retryCurrentSrc

\* newAttempts from the attempts of the render before the latest one.
newAttempts_PreviousRender == IF attempts = 0 THEN attempts + 1 ELSE attempts

\* const newAttempts = attempts + 1, with attempts of the latest render.
newAttempts == attempts + 1

\* RetryImage.handleError
RetryImage_handleError ==
    /\ impl = "RetryImage"
    /\ CanHandleRetryEvent
    /\ LET retryState == [attempts |-> newAttempts, isRetrying |-> FALSE,
                          hasLoaded |-> FALSE,
                          hasExhaustedRetries |-> newAttempts >= config.maxRetries]
           delay == calculateDelay(newAttempts, config.retryDelay,
                                   config.exponentialBackoff, config.maxDelay)
       IN  IF ShouldRetry(newAttempts)
           THEN /\ attempts' = newAttempts
                /\ isRetrying' = TRUE
                /\ StartTimer(delay)
                /\ retryCalls' = Notify("onError", newAttempts, 0, retryState)
                                 \o onRetryCall(newAttempts)
                /\ retryLast' = [kind |-> "error", delay |-> delay, timerEpoch |-> epoch]
                /\ exhaustedCalls' = exhaustedCalls
                /\ UNCHANGED <<hasExhaustedRetries, retryCurrentSrc>>
           ELSE /\ attempts' = newAttempts
                /\ hasExhaustedRetries' = TRUE
                /\ retryCalls' = Notify("onError", newAttempts, 0, retryState)
                                 \o onRetriesExhaustedCall
                /\ exhaustedCalls' = exhaustedCalls + Len(onRetriesExhaustedCall)
                /\ retryCurrentSrc' = ExhaustedSrc
                /\ retryLast' = [kind |-> "error", delay |-> 0, timerEpoch |-> epoch]
                /\ UNCHANGED <<isRetrying, timers, timeoutRef, nextId>>
    /\ failuresSinceReset' = failuresSinceReset + 1
    /\ handled' = handled + 1
    /\ UNCHANGED <<retryProps, srcProp, hasLoaded, error, originalSrc, mounted, epoch,
                   nifVars, preloadVars, hook>>

\* onSuccess told of no failure.
onSuccessCall_NoAttempts == Notify("onSuccess", 0, 0, NoState)

\* onSuccess?.(attempts)
onSuccessCall == Notify("onSuccess", attempts, 0, NoState)

\* RetryImage.handleLoad
RetryImage_handleLoad ==
    /\ impl = "RetryImage"
    /\ CanHandleRetryEvent
    /\ hasLoaded' = TRUE
    /\ isRetrying' = FALSE
    /\ retryCalls' = onSuccessCall
    /\ retryLast' = [kind |-> "load", delay |-> 0, timerEpoch |-> epoch]
    /\ handled' = handled + 1
    /\ UNCHANGED <<retryProps, srcProp, retryCurrentSrc, attempts, hasExhaustedRetries,
                   error, originalSrc, timeoutRef, timers, mounted, exhaustedCalls,
                   failuresSinceReset, epoch, nextId, nifVars, preloadVars, hook>>

\* The parent renders RetryImage with another src and the [src] effect runs.
RetryImage_srcEffect ==
    /\ impl = "RetryImage"
    /\ mounted
    /\ epoch < MaxResets
    /\ \E s \in RetrySrcValues \ {srcProp} :
          LET newSrc == StringOrUndefined(s)
          IN  /\ srcProp' = s
              /\ IF newSrc # originalSrc
                 THEN /\ originalSrc' = newSrc
                      /\ retryCurrentSrc' = PlainSrc(newSrc)
                      /\ attempts' = 0
                      /\ hasLoaded' = FALSE
                      /\ hasExhaustedRetries' = FALSE
                      /\ isRetrying' = FALSE
                 ELSE UNCHANGED <<originalSrc, retryCurrentSrc, attempts, hasLoaded,
                                  hasExhaustedRetries, isRetrying>>
    /\ retryLast' = [kind |-> "srcChange", delay |-> 0, timerEpoch |-> epoch + 1]
    /\ retryCalls' = <<>>
    /\ exhaustedCalls' = 0
    /\ failuresSinceReset' = 0
    /\ epoch' = epoch + 1
    /\ UNCHANGED <<retryProps, error, timeoutRef, timers, mounted, handled, nextId,
                   nifVars, preloadVars, hook>>

\* useImageRetry.handleError, which calls retry()
useImageRetry_handleError ==
    /\ impl = "useImageRetry"
    /\ CanHandleRetryEvent
    /\ error' = "Error"
    /\ LET delay == calculateDelay(newAttempts, config.retryDelay,
                                   config.exponentialBackoff, config.maxDelay)
       IN  IF RetriesExhausted(newAttempts)
           THEN /\ hasExhaustedRetries' = TRUE
                /\ retryLast' = [kind |-> "error", delay |-> 0, timerEpoch |-> epoch]
                /\ UNCHANGED <<attempts, isRetrying, timers, timeoutRef, nextId>>
           ELSE /\ attempts' = newAttempts
                /\ isRetrying' = TRUE
                /\ StartTimer(delay)
                /\ retryLast' = [kind |-> "error", delay |-> delay, timerEpoch |-> epoch]
                /\ UNCHANGED hasExhaustedRetries
    /\ retryCalls' = <<>>
    /\ failuresSinceReset' = failuresSinceReset + 1
    /\ handled' = handled + 1
    /\ UNCHANGED <<retryProps, srcProp, retryCurrentSrc, hasLoaded, originalSrc, mounted,
                   exhaustedCalls, epoch, nifVars, preloadVars, hook>>

\* useImageRetry.handleLoad
useImageRetry_handleLoad ==
    /\ impl = "useImageRetry"
    /\ CanHandleRetryEvent
    /\ hasLoaded' = TRUE
    /\ isRetrying' = FALSE
    /\ error' = "null"
    /\ retryCalls' = <<>>
    /\ retryLast' = [kind |-> "load", delay |-> 0, timerEpoch |-> epoch]
    /\ handled' = handled + 1
    /\ UNCHANGED <<retryProps, srcProp, retryCurrentSrc, attempts, hasExhaustedRetries,
                   originalSrc, timeoutRef, timers, mounted, exhaustedCalls,
                   failuresSinceReset, epoch, nextId, nifVars, preloadVars, hook>>

\* useImageRetry.reset
useImageRetry_reset ==
    /\ impl = "useImageRetry"
    /\ mounted
    /\ epoch < MaxResets
    /\ retryCurrentSrc' = PlainSrc(originalSrc)
    /\ attempts' = 0
    /\ isRetrying' = FALSE
    /\ hasLoaded' = FALSE
    /\ hasExhaustedRetries' = FALSE
    /\ error' = "null"
    /\ retryLast' = [kind |-> "reset", delay |-> 0, timerEpoch |-> epoch + 1]
    /\ retryCalls' = <<>>
    /\ exhaustedCalls' = 0
    /\ failuresSinceReset' = 0
    /\ epoch' = epoch + 1
    /\ UNCHANGED <<retryProps, srcProp, originalSrc, timeoutRef, timers, mounted, handled,
                   nextId, nifVars, preloadVars, hook>>

\* The host fires timers in the order they fall due: a pending timer that
\* was started earlier with a delay no longer than this one's fires first.
Due(t) == \A u \in timers : (u.id < t.id) => (u.delay > t.delay)

\* The callback given to setTimeout, the same in RetryImage and in the hook.
\* React drops the state updates of an instance that is no longer mounted.
TimerFires ==
    \E t \in timers :
        /\ Due(t)
        /\ timers' = timers \ {t}
        /\ retryLast' = [kind |-> "timer", delay |-> t.delay, timerEpoch |-> t.epoch]
        /\ retryCalls' = <<>>
        /\ IF mounted
           THEN /\ isRetrying' = FALSE
                /\ \E now \in Timestamps : retryCurrentSrc' = RetryUrl(originalSrc, now)
           ELSE UNCHANGED <<isRetrying, retryCurrentSrc>>
        /\ UNCHANGED <<retryProps, srcProp, attempts, hasLoaded, hasExhaustedRetries, error,
                       originalSrc, timeoutRef, mounted, exhaustedCalls,
                       failuresSinceReset, epoch, handled, nextId, nifVars,
                       preloadVars, hook>>

\* The cleanup of the [] effect, the same in RetryImage and in the hook:
\* if (timeoutRef.current) clearTimeout(timeoutRef.current)
Unmount ==
    /\ mounted
    /\ mounted' = FALSE
    /\ timers' = IF timeoutRef # 0 THEN {t \in timers : t.id # timeoutRef} ELSE timers
    /\ retryLast' = [kind |-> "unmount", delay |-> 0, timerEpoch |-> epoch]
    /\ retryCalls' = <<>>
    /\ UNCHANGED <<retryProps, srcProp, retryCurrentSrc, attempts, isRetrying, hasLoaded,
                   hasExhaustedRetries, error, originalSrc, timeoutRef, exhaustedCalls,
                   failuresSinceReset, epoch, handled, nextId, nifVars, preloadVars, hook>>

RetryNext ==
    \/ RetryImage_handleError
    \/ RetryImage_handleLoad
    \/ RetryImage_srcEffect
    \/ useImageRetry_handleError
    \/ useImageRetry_handleLoad
    \/ useImageRetry_reset
    \/ TimerFires
    \/ Unmount

SpecRetry == RetryInit /\ [][RetryNext]_vars

RetryTypeOK ==
    /\ impl \in Implementations
    /\ srcProp \in RetrySrcValues
    /\ config \in RetryConfigs
    /\ attempts \in 0..MaxRetryEvents
    /\ isRetrying \in BOOLEAN
    /\ hasLoaded \in BOOLEAN
    /\ hasExhaustedRetries \in BOOLEAN
    /\ error \in {"null", "Error"}
    /\ originalSrc \in StringSrcValues \cup {Undefined}
    /\ timeoutRef \in 0..nextId
    /\ \A t \in timers : t.id \in 1..nextId /\ t.epoch \in 0..epoch
    /\ mounted \in BOOLEAN
    /\ handled \in 0..MaxRetryEvents
    /\ epoch \in 0..MaxResets

(***************************************************************************)
(* Steps of the retry machine the properties speak of.                     *)
(***************************************************************************)

\* The step handles a reported failure.
RetryFailureStep == handled' = handled + 1 /\ retryLast'.kind = "error"

\* The step is the callback of a timer.
TimerStep == timers' # timers /\ retryLast'.kind = "timer"

\* The step is a reset: RetryImage's src changed, or the hook's reset().
RetryResetStep == epoch' = epoch + 1

\* The step started a timer.
TimerStarted == nextId' = nextId + 1

\* min(baseDelay * 2^(n-1), maxDelay), or baseDelay without backoff.
ExpectedDelay(n, cfg) ==
    IF cfg.exponentialBackoff
    THEN IF cfg.retryDelay * 2^(n - 1) <= cfg.maxDelay
         THEN cfg.retryDelay * 2^(n - 1)
         ELSE cfg.maxDelay
    ELSE cfg.retryDelay

AttemptNumbers == 1..(MaxRetryEvents + 4)

\* C12: calculateDelay(n, baseDelay, exponential, maxDelay) is baseDelay
\* without backoff (always 500 with retryDelay = 500) and
\* min(baseDelay * 2^(n-1), maxDelay) with it, for every n >= 1; and every
\* timer is started with that value for the new attempt number.
C12_DelayFormula ==
    /\ \A n \in AttemptNumbers : \A cfg \in RetryConfigs :
          calculateDelay(n, cfg.retryDelay, cfg.exponentialBackoff, cfg.maxDelay)
             = ExpectedDelay(n, cfg)
    /\ \A n \in AttemptNumbers : calculateDelay(n, 500, FALSE, 10000) = 500
    /\ (retryLast.kind = "error" /\ retryLast.delay # 0) =>
          /\ retryLast.delay = ExpectedDelay(attempts, config)
          /\ \E t \in timers : t.id = nextId /\ t.delay = ExpectedDelay(attempts, config)
    /\ \A t \in timers : \E n \in AttemptNumbers : t.delay = ExpectedDelay(n, config)

\* The second failure started a timer with the delay capped at maxDelay.
C12_Witness ==
    /\ config.maxDelay = 1500
    /\ retryLast.kind = "error"
    /\ attempts = 2
    /\ retryLast.delay = 1500
    /\ \E t \in timers : t.id = nextId /\ t.delay = 1500

\* C13 as stated: with the default configuration the 1st, 2nd and 3rd
\* failure each schedule a retry, with delays 1000, 2000 and 4000, and after
\* the 3rd failure hasExhaustedRetries is true.
C13_ThreeRetriesByDefault ==
    [][(impl = "RetryImage" /\ config = DEFAULT_RETRY_CONFIG /\ RetryFailureStep
          /\ failuresSinceReset' <= 3) =>
         /\ TimerStarted
         /\ retryLast'.delay = 1000 * 2^(failuresSinceReset' - 1)
         /\ failuresSinceReset' = 3 => hasExhaustedRetries']_vars

\* C13, amended: with the default configuration (maxRetries = 3) the 1st and
\* 2nd failure each schedule a retry, with delays 1000 and 2000; the 3rd
\* failure schedules no retry and sets hasExhaustedRetries.
C13_TwoRetriesByDefault ==
    [][(impl = "RetryImage" /\ config = DEFAULT_RETRY_CONFIG /\ RetryFailureStep
          /\ failuresSinceReset' <= 3) =>
         /\ failuresSinceReset' \in {1, 2} =>
               /\ TimerStarted
               /\ retryLast'.delay = 1000 * failuresSinceReset'
               /\ \E t \in timers' \ timers : t.delay = 1000 * failuresSinceReset'
               /\ isRetrying'
               /\ ~hasExhaustedRetries'
         /\ failuresSinceReset' = 3 =>
               /\ ~TimerStarted
               /\ timers' = timers
               /\ retryLast'.delay = 0
               /\ hasExhaustedRetries']_vars

\* The third failure under the default configuration exhausted the retries.
C13_Witness ==
    /\ impl = "RetryImage"
    /\ config = DEFAULT_RETRY_CONFIG
    /\ failuresSinceReset = 3
    /\ retryLast = [kind |-> "error", delay |-> 0, timerEpoch |-> epoch]
    /\ hasExhaustedRetries
    /\ nextId = 2

\* C14: in RetryImage, within one source-lifetime onRetriesExhausted is
\* invoked exactly once, at the failure that makes attempts reach maxRetries:
\* not before, and not again at a later failure.
C14_ExhaustedNotifiedOnce ==
    (impl = "RetryImage" /\ "onRetriesExhausted" \in retrySupplied) =>
        exhaustedCalls = IF attempts >= 1 /\ attempts >= config.maxRetries THEN 1 ELSE 0

\* C15: in RetryImage and in the hook, after every step hasExhaustedRetries
\* is true exactly when attempts >= maxRetries, and once true it stays true
\* until a reset.
C15_ExhaustedIffAttemptsReachMax ==
    [][/\ hasExhaustedRetries' <=> (attempts' >= config.maxRetries)
       /\ hasExhaustedRetries => (hasExhaustedRetries' \/ RetryResetStep)]_vars

\* C16: in RetryImage and in the hook, every reported failure increments
\* attempts by one (attempts is the number of failures since the last reset)
\* and attempts never decreases between two resets.
C16_AttemptsCountFailures ==
    [][/\ RetryFailureStep => attempts' = attempts + 1
       /\ attempts' = failuresSinceReset'
       /\ ~RetryResetStep => attempts' >= attempts]_vars

\* The step's timer was started before the last reset.
StaleTimerStep == TimerStep /\ retryLast'.timerEpoch < epoch

\* C17: the hook's reset() restores attempts to 0, isRetrying, hasLoaded and
\* hasExhaustedRetries to false, error to null and src to the original
\* source, and a timer started before reset() changes neither isRetrying nor
\* src after it.
C17_ResetCancelsTimer ==
    [][impl = "useImageRetry" =>
         /\ RetryResetStep =>
               /\ attempts' = 0
               /\ ~isRetrying'
               /\ ~hasLoaded'
               /\ ~hasExhaustedRetries'
               /\ error' = "null"
               /\ retryCurrentSrc' = PlainSrc(srcProp)
         /\ StaleTimerStep => UNCHANGED <<isRetrying, retryCurrentSrc>>]_vars

\* C18: when RetryImage's src prop changes the state is reset for the new
\* source (attempts 0, the flags false, active source the new src), and a
\* timer started before the change changes neither the active source nor
\* isRetrying after it.
C18_SrcChangeCancelsTimer ==
    [][impl = "RetryImage" =>
         /\ RetryResetStep =>
               /\ attempts' = 0
               /\ ~isRetrying'
               /\ ~hasLoaded'
               /\ ~hasExhaustedRetries'
               /\ imageSrc' = PlainSrc(srcProp')
         /\ StaleTimerStep => UNCHANGED <<isRetrying, imageSrc>>]_vars

\* C19: in RetryImage and in the hook, at most one retry timer is
\* outstanding in every reachable state.
C19_AtMostOneTimer == Cardinality(timers) <= 1

\* C20: after the instance unmounts no retry timer callback runs, every
\* timer not yet fired having been cancelled at unmount.
C20_NoTimerAfterUnmount ==
    [][/\ TimerStep => mounted
       /\ ~mounted' => timers' = {}]_vars

\* C21: in RetryImage, when the failure that makes attempts reach maxRetries
\* is handled and fallbackSrc is configured, the rendered source becomes
\* fallbackSrc; with maxRetries = 1 that is the first failure.
C21_FallbackOnExhaustion ==
    [][(impl = "RetryImage" /\ Truthy(retryFallbackSrc) /\ RetryFailureStep) =>
         /\ attempts' = config.maxRetries =>
               /\ imageSrc' = PlainSrc(retryFallbackSrc)
               /\ retryCurrentSrc' = PlainSrc(retryFallbackSrc)
               /\ hasExhaustedRetries'
         /\ (config.maxRetries = 1 /\ failuresSinceReset' = 1) =>
               imageSrc' = PlainSrc(retryFallbackSrc)]_vars

\* The first failure with maxRetries = 1 switched to the fallback source.
C21_Witness ==
    /\ impl = "RetryImage"
    /\ config.maxRetries = 1
    /\ Truthy(retryFallbackSrc)
    /\ retryLast.kind = "error"
    /\ failuresSinceReset = 1
    /\ attempts = 1
    /\ imageSrc = PlainSrc(retryFallbackSrc)

\* C22: in RetryImage, a failure whose new attempt number (attempts + 1) is
\* below maxRetries sets isRetrying, invokes onRetry exactly once with (new
\* attempt number, maxRetries), starts one timer with the delay computed for
\* that attempt number, does not invoke onRetriesExhausted and does not
\* change the rendered source.
C22_RetryBranch ==
    [][(impl = "RetryImage" /\ RetryFailureStep /\ attempts + 1 < config.maxRetries) =>
         /\ isRetrying'
         /\ attempts' = attempts + 1
         /\ "onRetry" \in retrySupplied =>
               /\ CountCalls(retryCalls', "onRetry") = 1
               /\ \E i \in 1..Len(retryCalls') :
                     /\ retryCalls'[i].cb = "onRetry"
                     /\ retryCalls'[i].a = attempts + 1
                     /\ retryCalls'[i].b = config.maxRetries
         /\ timers \subseteq timers'
         /\ Cardinality(timers' \ timers) = 1
         /\ \A t \in timers' \ timers : t.delay = ExpectedDelay(attempts + 1, config)
         /\ CountCalls(retryCalls', "onRetriesExhausted") = 0
         /\ exhaustedCalls' = exhaustedCalls
         /\ ~hasExhaustedRetries' \/ hasExhaustedRetries
         /\ imageSrc' = imageSrc]_vars

\* The second failure under the default configuration told onRetry (2, 3)
\* and started a timer of 2000.
C22_Witness ==
    /\ impl = "RetryImage"
    /\ config = DEFAULT_RETRY_CONFIG
    /\ "onRetry" \in retrySupplied
    /\ retryLast.kind = "error"
    /\ attempts = 2
    /\ isRetrying
    /\ \E i \in 1..Len(retryCalls) :
          retryCalls[i].cb = "onRetry" /\ retryCalls[i].a = 2 /\ retryCalls[i].b = 3
    /\ \E t \in timers : t.id = nextId /\ t.delay = 2000

\* C23: in RetryImage, every failure invokes onError with a snapshot of the
\* retry state that results from it: attempts is the incremented count,
\* hasLoaded is false, hasExhaustedRetries is true iff the incremented count
\* >= maxRetries, and isRetrying is true iff the failure scheduled a retry.
C23_OnErrorSnapshot ==
    [][(impl = "RetryImage" /\ RetryFailureStep /\ "onError" \in retrySupplied) =>
         /\ CountCalls(retryCalls', "onError") = 1
         /\ \A i \in 1..Len(retryCalls') :
               retryCalls'[i].cb = "onError" =>
                  /\ retryCalls'[i].a = attempts + 1
                  /\ retryCalls'[i].a = attempts'
                  /\ ~retryCalls'[i].hasLoaded
                  /\ retryCalls'[i].hasExhaustedRetries <=> (attempts + 1 >= config.maxRetries)
                  /\ retryCalls'[i].isRetrying <=> TimerStarted]_vars

\* The step handles a load-success event.
RetryLoadStep == handled' = handled + 1 /\ retryLast'.kind = "load"

\* C24: in RetryImage, a load-success event handled after n failures since
\* the last reset invokes onSuccess with argument n, sets hasLoaded, clears
\* isRetrying and leaves attempts and hasExhaustedRetries unchanged.
C24_LoadSuccess ==
    [][(impl = "RetryImage" /\ RetryLoadStep) =>
         /\ hasLoaded'
         /\ ~isRetrying'
         /\ UNCHANGED <<attempts, hasExhaustedRetries>>
         /\ "onSuccess" \in retrySupplied =>
               /\ Len(retryCalls') = 1
               /\ retryCalls'[1].cb = "onSuccess"
               /\ retryCalls'[1].a = failuresSinceReset
         /\ "onSuccess" \notin retrySupplied => retryCalls' = <<>>]_vars

\* A load after two failures told onSuccess 2 while a retry was pending.
C24_Witness ==
    /\ impl = "RetryImage"
    /\ retryLast.kind = "load"
    /\ failuresSinceReset = 2
    /\ retryCalls # <<>>
    /\ retryCalls[1].cb = "onSuccess"
    /\ retryCalls[1].a = 2
    /\ hasLoaded
    /\ ~isRetrying

\* The requested source with one cache-busting marker.
CacheBusted(requested) ==
    { [url |-> requested, sep |-> Separator(requested), stamp |-> now] : now \in Timestamps }

\* C25: in RetryImage and in the hook, when a retry timer of the mounted
\* instance fires, isRetrying becomes false and the rendered source becomes
\* a value that differs from the one rendered before and is the requested
\* source plus one cache-busting marker ('&' if the source contains '?',
\* '?' otherwise), whether src is a URL string or a static import.
C25_TimerReloadsRequestedSource ==
    [][(TimerStep /\ mounted /\ ~StaleTimerStep) =>
         /\ ~isRetrying'
         /\ imageSrc' # imageSrc
         /\ imageSrc' \in CacheBusted(srcProp)]_vars

\* An indicator is displayed.
IndicatorDisplayed(showRetryIndicator, retryIndicator) ==
    RetryImage_indicator(showRetryIndicator, retryIndicator).kind # "null"

\* The displayed indicator states the attempt number and maxRetries.
StatesAttemptAndMax(indicator) ==
    /\ <<"attempts", attempts>> \in indicator.states
    /\ <<"maxRetries", config.maxRetries>> \in indicator.states

\* The step after which the indicator is to be gone: the timer of the
\* mounted instance fired, or a load succeeded.
RetryOverStep == (TimerStep /\ mounted) \/ RetryLoadStep

\* C26 as stated: in RetryImage an indicator (overlay, retryIndicator or
\* loadingComponent) is displayed exactly while isRetrying, states the
\* current attempt number and maxRetries, and is gone once the timer has
\* fired or a load has succeeded; with showRetryIndicator = false and no
\* loadingComponent nothing is displayed.
C26_IndicatorStatesAttempt ==
    [][(impl = "RetryImage" /\ mounted') =>
         \A show \in BOOLEAN, custom \in BOOLEAN :
            /\ (show \/ loadingComponent) =>
                  (IndicatorDisplayed(show, custom)' <=> isRetrying')
            /\ IndicatorDisplayed(show, custom)' =>
                  StatesAttemptAndMax(RetryImage_indicator(show, custom))'
            /\ RetryOverStep => ~IndicatorDisplayed(show, custom)'
            /\ (~show /\ ~loadingComponent) => ~IndicatorDisplayed(show, custom)']_vars

\* C26, amended: an indicator is displayed exactly while isRetrying and is
\* gone once the timer has fired or a load has succeeded; the default
\* overlay states the current attempt number and maxRetries, the caller's
\* retryIndicator is given the current attempt number, and the caller's
\* loadingComponent is displayed as given; with showRetryIndicator = false
\* and no loadingComponent nothing is displayed.
C26_IndicatorWhileRetrying ==
    [][(impl = "RetryImage" /\ mounted') =>
         \A show \in BOOLEAN, custom \in BOOLEAN :
            /\ (show \/ loadingComponent) =>
                  (IndicatorDisplayed(show, custom)' <=> isRetrying')
            /\ RetryImage_indicator(show, custom)'.kind = "overlay" =>
                  /\ show /\ ~custom /\ ~loadingComponent
                  /\ StatesAttemptAndMax(RetryImage_indicator(show, custom))'
            /\ RetryImage_indicator(show, custom)'.kind = "retryIndicator" =>
                  /\ show /\ custom /\ ~loadingComponent
                  /\ RetryImage_indicator(show, custom)'.states = {<<"attempts", attempts'>>}
            /\ RetryImage_indicator(show, custom)'.kind = "loadingComponent" =>
                  /\ loadingComponent
                  /\ RetryImage_indicator(show, custom)'.states = {}
            /\ RetryOverStep => ~IndicatorDisplayed(show, custom)'
            /\ (~show /\ ~loadingComponent) => ~IndicatorDisplayed(show, custom)']_vars

\* The default overlay states attempt 2 of 3 during the second retry.
C26_Witness ==
    /\ impl = "RetryImage"
    /\ mounted
    /\ isRetrying
    /\ ~loadingComponent
    /\ attempts = 2
    /\ RetryImage_indicator(TRUE, FALSE)
          = [kind |-> "overlay", states |-> {<<"attempts", 2>>, <<"maxRetries", 3>>}]
    /\ RetryImage_indicator(FALSE, FALSE).kind = "null"

(***************************************************************************)
(* Both machines in one specification: an instance of NextImageFallback or *)
(* an instance of the retry machine, the other one idle.                   *)
(***************************************************************************)

InitAll == Init \/ RetryInit

NextAll ==
    \/ RetryIdle /\ Next
    \/ NifIdle /\ RetryNext

SpecAll == InitAll /\ [][NextAll]_vars

Widths == {NotPassed, Number(0), Number(59), Number(60), Number(79), Number(80),
           Number(200), NumericString(50)}

Heights == {NotPassed, Number(40), NumericString(50)}

ErrorMessages == {Undefined, "Could not load"}

\* `width || 100`: the default replaces a prop that is missing or 0.
OrDefault(size) ==
    IF size.type = "undefined" \/ (size.type = "number" /\ size.value = 0)
    THEN Number(100)
    ELSE size

\* altErrorMessage = DEFAULT_ERROR_MESSAGE in the destructuring of the props
errorMessage == IF altErrorMessage = Undefined THEN DEFAULT_ERROR_MESSAGE ELSE altErrorMessage

\* The icon shown at every width.
showIcon_Always(w) == TRUE

\* const showIcon = typeof width === 'number' ? width >= 60 : true
showIcon(w) == IF w.type = "number" THEN w.value >= 60 ELSE TRUE

\* const showText = typeof width === 'number' ? width >= 80 : true
showText(w) == IF w.type = "number" THEN w.value >= 80 ELSE TRUE

\* What AlternativeFallbackPlaceholder renders.
AlternativeFallbackPlaceholder(type, message, w, h) ==
    [role |-> "img", ariaLabel |-> message, type |-> type, width |-> w, height |-> h,
     icon |-> showIcon(w), text |-> IF showText(w) THEN message ELSE ""]

\* The placeholder as NextImageFallback renders it.
Placeholder ==
    AlternativeFallbackPlaceholder(alternativeFallback, errorMessage,
                                   OrDefault(width), OrDefault(height))

\* An instance that was asked for a placeholder, with the width, height and
\* message props chosen at the mount.
PlaceholderInit ==
    /\ HookIdle
    /\ RetryIdle
    /\ PreloadIdle
    /\ src = "/primary.png"
    /\ fallbackSrc \in FallbackSrcValues
    /\ alternativeFallback \in AlternativeFallbackType
    /\ supplied = {}
    /\ currentSrc = src
    /\ hasTriedFallback = FALSE
    /\ showAlternativeFallback = FALSE
    /\ effectPending = TRUE
    /\ lastEvent = [kind |-> "mount", naturalWidth |-> 0]
    /\ calls = <<>>
    /\ fallbackCalls = 0
    /\ alternativeCalls = 0
    /\ events = 0
    /\ failures = 0
    /\ srcChanges = 0
    /\ width \in Widths
    /\ height \in Heights
    /\ altErrorMessage \in ErrorMessages

SpecPlaceholder == PlaceholderInit /\ [][Next]_vars

\* C28: the placeholder rendered with a number as width has the icon iff
\* width >= 60 and the error message iff width >= 80, and has both with a
\* string as width; its container has role "img" and the error message as
\* aria-label; width and height are 100 when the prop is missing.
C28_PlaceholderThresholds ==
    PlaceholderRendered =>
       /\ Placeholder.width.type = "number" =>
             /\ Placeholder.icon <=> Placeholder.width.value >= 60
             /\ (Placeholder.text # "") <=> Placeholder.width.value >= 80
       /\ Placeholder.width.type = "string" =>
             /\ Placeholder.icon
             /\ Placeholder.text # ""
       /\ Placeholder.text \in {"", Placeholder.ariaLabel}
       /\ Placeholder.role = "img"
       /\ Placeholder.ariaLabel
             = (IF altErrorMessage = Undefined THEN "Image unavailable" ELSE altErrorMessage)
       /\ width = NotPassed => Placeholder.width = Number(100)
       /\ width \notin {NotPassed, Number(0)} => Placeholder.width = width
       /\ height = NotPassed => Placeholder.height = Number(100)
       /\ height \notin {NotPassed, Number(0)} => Placeholder.height = height

\* A placeholder of width 60 has the icon and no text.
C28_Witness ==
    /\ PlaceholderRendered
    /\ width = Number(60)
    /\ height = NotPassed
    /\ Placeholder.icon
    /\ Placeholder.text = ""
    /\ Placeholder.height = Number(100)

(***************************************************************************)
(* preloadImage and isImageAccessible of src/src/utils.ts.  One call: the  *)
(* promise, the timer of timeoutId, and the image's load and error events. *)
(***************************************************************************)

PreloadCallers == {"preloadImage", "isImageAccessible"}

PreloadSrcValues == {"https://example.com/image.jpg", "https://example.com/broken.jpg",
                     "https://example.com/slow.jpg"}

\* The timeout in force: the caller's argument, or the default of
\* preloadImage (10000) or of isImageAccessible (5000).
Timeouts == {1000, 5000, 10000}

Pending == [state |-> "pending", msg |-> "", src |-> ""]

\* resolve / reject on a promise that forgets an earlier settlement.
Settle_Overwrites(p, st, m) == [state |-> st, msg |-> m, src |-> preloadArgs.src]

\* resolve(img) / reject(new Error(`${m}: ${src}`)): a promise settles once,
\* later calls of resolve and reject are ignored.
Settle(p, st, m) ==
    IF p.state = "pending" THEN [state |-> st, msg |-> m, src |-> preloadArgs.src] ELSE p

\* isImageAccessible: true after `await preloadImage(...)`, false in catch.
Resume(p) ==
    IF caller # "isImageAccessible" \/ p.state = "pending" THEN "pending"
    ELSE IF p.state = "fulfilled" THEN "true"
    ELSE "false"

\* The state when preloadImage has returned: the timer started, the
\* handlers set, img.src assigned.
PreloadInit ==
    /\ HookIdle
    /\ NifIdle
    /\ RetryIdle
    /\ caller \in PreloadCallers
    /\ preloadArgs \in [src : PreloadSrcValues, timeout : Timeouts]
    /\ promise = Pending
    /\ timeoutPending = TRUE
    /\ imgEvents = <<>>
    /\ accessible = "pending"

\* The image fires load or error once each at most.
Happened(e) == \E i \in 1..Len(imgEvents) : imgEvents[i] = e

SettleBy(e, st, m) ==
    /\ promise' = Settle(promise, st, m)
    /\ accessible' = Resume(promise')
    /\ imgEvents' = Append(imgEvents, e)
    /\ UNCHANGED <<caller, preloadArgs, nifVars, retryVars, hook>>

\* img.onload
preloadImage_onload ==
    /\ caller \in PreloadCallers
    /\ ~Happened("load")
    /\ timeoutPending' = FALSE
    /\ SettleBy("load", "fulfilled", "img")

\* img.onerror
preloadImage_onerror ==
    /\ caller \in PreloadCallers
    /\ ~Happened("error")
    /\ timeoutPending' = FALSE
    /\ SettleBy("error", "rejected", "Failed to load image")

\* The callback of the timer of timeoutId.
preloadImage_timeout ==
    /\ timeoutPending
    /\ timeoutPending' = FALSE
    /\ SettleBy("timeout", "rejected", "Image load timeout")

PreloadNext ==
    \/ preloadImage_onload
    \/ preloadImage_onerror
    \/ preloadImage_timeout

\* The host fires a timer that is not cleared.
SpecPreload == PreloadInit /\ [][PreloadNext]_vars /\ WF_vars(preloadImage_timeout)

\* The outcome the first of the three events decides.
OutcomeOf(e) ==
    IF e = "load" THEN [state |-> "fulfilled", msg |-> "img", src |-> preloadArgs.src]
    ELSE IF e = "error"
         THEN [state |-> "rejected", msg |-> "Failed to load image", src |-> preloadArgs.src]
         ELSE [state |-> "rejected", msg |-> "Image load timeout", src |-> preloadArgs.src]

\* C29: the promise of preloadImage settles exactly once, as the first of
\* load, error and timeout decides (resolved with the image, rejected with
\* 'Failed to load image', rejected with 'Image load timeout'); a later
\* event does not change the outcome; after load or error the timer is no
\* longer pending; and the promise does settle.
C29_SettlesOnceByFirstEvent ==
    /\ [][/\ promise.state # "pending" => promise' = promise
          /\ promise'.state # "pending"
          /\ promise' = OutcomeOf(imgEvents'[1])
          /\ (Happened("load")' \/ Happened("error")') => ~timeoutPending'
          /\ caller = "isImageAccessible" =>
                accessible' = (IF imgEvents'[1] = "load" THEN "true" ELSE "false")
          /\ caller = "preloadImage" => accessible' = "pending"]_vars
    /\ <>(promise.state # "pending")

\* The image loaded after the timeout had rejected the promise.
C29_Witness ==
    /\ imgEvents = <<"timeout", "load">>
    /\ promise = [state |-> "rejected", msg |-> "Image load timeout", src |-> preloadArgs.src]
    /\ ~timeoutPending

(***************************************************************************)
(* RetryImage when every load attempt fails: no load event, every failure  *)
(* event is delivered and every timer fires.  The src prop changes only    *)
(* while the events left let the new source use up its retries.            *)
(***************************************************************************)

RetryLiveInit == RetryInit /\ impl = "RetryImage"

\* The failures it takes to exhaust the retries: maxRetries, and one when
\* maxRetries is 0.
FailuresToExhaust == IF config.maxRetries >= 1 THEN config.maxRetries ELSE 1

RetryImage_srcEffect_EventsLeft ==
    /\ handled + FailuresToExhaust <= MaxRetryEvents
    /\ RetryImage_srcEffect

RetryLiveNext ==
    \/ RetryImage_handleError
    \/ TimerFires
    \/ RetryImage_srcEffect_EventsLeft
    \/ Unmount

SpecRetryLive ==
    /\ RetryLiveInit
    /\ [][RetryLiveNext]_vars
    /\ WF_vars(RetryImage_handleError)
    /\ WF_vars(TimerFires)

\* C30 as stated: when every load attempt fails and every timer fires, the
\* mounted RetryImage ends up with hasExhaustedRetries true for good, at the
\* latest at the maxRetries-th failure since the last reset, and once it is
\* true no retry timer is started until the next reset.
C30_RetryingTerminates ==
    /\ <>[](hasExhaustedRetries \/ ~mounted)
    /\ [](failuresSinceReset >= config.maxRetries => hasExhaustedRetries)
    /\ [][(hasExhaustedRetries /\ ~RetryResetStep) =>
             (~TimerStarted /\ timers' \subseteq timers /\ hasExhaustedRetries')]_vars

\* C30, amended: as stated, with hasExhaustedRetries true at the latest at
\* the maxRetries-th failure since the last reset, or at the first failure
\* when maxRetries is 0.
C30_RetryingTerminatesByFailure ==
    /\ <>[](hasExhaustedRetries \/ ~mounted)
    /\ [](failuresSinceReset >= FailuresToExhaust => hasExhaustedRetries)
    /\ [](hasExhaustedRetries => failuresSinceReset >= FailuresToExhaust)
    /\ [][(hasExhaustedRetries /\ ~RetryResetStep) =>
             (~TimerStarted /\ timers' \subseteq timers /\ hasExhaustedRetries')]_vars

\* After a change of src the new source used up its retries, and every
\* timer has fired.
C30_Witness ==
    /\ impl = "RetryImage"
    /\ mounted
    /\ epoch >= 1
    /\ config = DEFAULT_RETRY_CONFIG
    /\ failuresSinceReset = config.maxRetries
    /\ hasExhaustedRetries
    /\ timers = {}
    /\ nextId >= 2

(***************************************************************************)
(* The retry machine over interleavings of failures, loads, timers and     *)
(* changes of src.                                                         *)
(***************************************************************************)

\* The retries RetryImage may schedule for one source: maxRetries - 1.
RetryBudget == IF config.maxRetries >= 1 THEN config.maxRetries - 1 ELSE 0

\* C31: in RetryImage at most maxRetries - 1 retries are scheduled for one
\* source: a timer is started only by a failure that brings attempts to at
\* most maxRetries - 1, one timer at a time, onRetry is invoked exactly in
\* the steps that start a timer, so the timers started up to the n-th change
\* of src are at most (n + 1) * (maxRetries - 1); with maxRetries <= 1 the
\* first failure sets hasExhaustedRetries and starts no timer.
C31_RetriesBounded ==
    /\ [](impl = "RetryImage" => nextId <= (epoch + 1) * RetryBudget)
    /\ [][impl = "RetryImage" =>
            /\ TimerStarted =>
                  /\ RetryFailureStep
                  /\ attempts' = attempts + 1
                  /\ attempts' <= config.maxRetries - 1
                  /\ Cardinality(timers' \ timers) = 1
            /\ CountCalls(retryCalls', "onRetry") =
                  IF TimerStarted /\ "onRetry" \in retrySupplied THEN 1 ELSE 0
            /\ (RetryFailureStep /\ config.maxRetries <= 1 /\ failuresSinceReset' = 1) =>
                  /\ hasExhaustedRetries'
                  /\ ~TimerStarted
                  /\ timers' = timers
                  /\ CountCalls(retryCalls', "onRetry") = 0]_vars

\* Four failures of one source under the default configuration started two
\* timers.
C31_Witness ==
    /\ impl = "RetryImage"
    /\ config = DEFAULT_RETRY_CONFIG
    /\ "onRetry" \in retrySupplied
    /\ epoch = 0
    /\ failuresSinceReset = 4
    /\ nextId = 2
    /\ hasExhaustedRetries

\* The names of the callbacks invoked, in the order of invocation.
CallNames(seq) == [i \in 1..Len(seq) |-> seq[i].cb]

\* The callbacks among names that the parent supplied, in order.
Supplied(names) == SelectSeq(names, LAMBDA n : n \in retrySupplied)

\* C32: in RetryImage every handled failure invokes onError first and then
\* exactly one of onRetry, when the failure started a retry timer, or
\* onRetriesExhausted, when it did not and hasExhaustedRetries is set; a
\* callback the parent did not supply is skipped.
C32_NotificationOrder ==
    [][(impl = "RetryImage" /\ RetryFailureStep) =>
         /\ TimerStarted <=> ~hasExhaustedRetries'
         /\ CallNames(retryCalls') =
               Supplied(<<"onError",
                          IF TimerStarted THEN "onRetry" ELSE "onRetriesExhausted">>)
         /\ {"onRetry", "onRetriesExhausted"} \subseteq retrySupplied =>
               CountCalls(retryCalls', "onRetry")
                 + CountCalls(retryCalls', "onRetriesExhausted") = 1]_vars

\* A failure that exhausted the retries told onError and then
\* onRetriesExhausted, after an earlier failure had started a retry.
C32_Witness ==
    /\ impl = "RetryImage"
    /\ {"onError", "onRetry", "onRetriesExhausted"} \subseteq retrySupplied
    /\ retryLast.kind = "error"
    /\ CallNames(retryCalls) = <<"onError", "onRetriesExhausted">>
    /\ nextId >= 1
    /\ hasExhaustedRetries

\* C33: in RetryImage with a fallbackSrc, while hasExhaustedRetries is true
\* (from the failure that set it until the next change of src) the source
\* given to the image is fallbackSrc, whatever failure, load or timer is
\* handled in between.
C33_FallbackStays ==
    (impl = "RetryImage" /\ hasExhaustedRetries /\ Truthy(retryFallbackSrc)) =>
        imageSrc = PlainSrc(retryFallbackSrc)

\* C34: in RetryImage isRetrying and hasExhaustedRetries are never both
\* true, whatever the order of failures, loads and timers.
C34_RetryingExcludesExhausted ==
    impl = "RetryImage" => ~(isRetrying /\ hasExhaustedRetries)

\* C35: in RetryImage, while hasLoaded is true the source given to the image
\* is changed by no further load and by no timer: a timer that was pending
\* when the load was handled leaves the loaded source alone.  (The loaded
\* image reports no failure, and a change of src starts a new source.)
C35_LoadedSourceStays ==
    [][(impl = "RetryImage" /\ hasLoaded /\ (RetryLoadStep \/ TimerStep)) =>
          imageSrc' = imageSrc]_vars

(***************************************************************************)
(* RetryImage and useImageRetry with the same configuration and the same   *)
(* events: RetryImage handles a failure, a load or the firing of a timer,  *)
(* and the hook is then given the event of the same kind.                  *)
(***************************************************************************)

\* useImageRetry.retry(), called by the hook's handleError, on the state h.
useImageRetry_retry(h) ==
    IF RetriesExhausted(h.attempts + 1)
    THEN [h EXCEPT !.hasExhaustedRetries = TRUE]
    ELSE [h EXCEPT !.attempts = h.attempts + 1, !.isRetrying = TRUE, !.pending = @ + 1]

\* useImageRetry.handleLoad on the state h.
useImageRetry_loaded(h) == [h EXCEPT !.hasLoaded = TRUE, !.isRetrying = FALSE]

\* The callback retry() gave to setTimeout, when the hook has a timer pending.
useImageRetry_timeout(h) ==
    IF h.pending > 0 THEN [h EXCEPT !.isRetrying = FALSE, !.pending = @ - 1] ELSE h

\* The hook's state after an event of the given kind.
HookAfter(kind, h) ==
    CASE kind = "error" -> useImageRetry_retry(h)
      [] kind = "load"  -> useImageRetry_loaded(h)
      [] kind = "timer" -> useImageRetry_timeout(h)
      [] OTHER          -> h

\* The events RetryImage has handled: image events and fired timers.
EventsHandled == handled + (nextId - Cardinality(timers))

\* The hook has been given every event RetryImage has handled.
Synced == hook.seen = EventsHandled

\* The hook is given the event RetryImage handled last.
HookGiven ==
    /\ hook.seen < EventsHandled
    /\ hook' = [HookAfter(retryLast.kind, hook) EXCEPT !.seen = @ + 1]
    /\ UNCHANGED <<nifVars, retryVars, preloadVars>>

PairInit == RetryInit /\ impl = "RetryImage"

PairNext ==
    \/ Synced /\ RetryImage_handleError
    \/ Synced /\ RetryImage_handleLoad
    \/ Synced /\ TimerFires
    \/ HookGiven

SpecPair == PairInit /\ [][PairNext]_vars

\* C36: given the same configuration and the same failures, loads and timer
\* firings, useImageRetry and RetryImage have the same attempts, isRetrying,
\* hasLoaded and hasExhaustedRetries after every event.
C36_SameMachine ==
    Synced =>
        /\ hook.attempts = attempts
        /\ hook.isRetrying = isRetrying
        /\ hook.hasLoaded = hasLoaded
        /\ hook.hasExhaustedRetries = hasExhaustedRetries

(***************************************************************************)
(* NextImageFallback: the placeholder and the source given to the image.   *)
(***************************************************************************)

\* C37: in NextImageFallback with a fallbackSrc that differs from src,
\* showAlternativeFallback is true only when hasTriedFallback is: a failure
\* handled before the fallback was tried, an error event or a load
\* completion of width 0, tries the fallback and leaves the placeholder
\* hidden.
C37_FallbackTriedBeforePlaceholder ==
    /\ []((showAlternativeFallback /\ FallbackDiffers) => hasTriedFallback)
    /\ [][(FallbackDiffers /\ FailureStep /\ ~hasTriedFallback) =>
             (hasTriedFallback' /\ ~showAlternativeFallback')]_vars

\* The placeholder is shown after two failures, the fallback's a load
\* completion of width 0, and onFallback was invoked for the first.
C37_Witness ==
    /\ FallbackDiffers
    /\ showAlternativeFallback
    /\ hasTriedFallback
    /\ currentSrc = fallbackSrc
    /\ events = 2
    /\ failures = 2
    /\ lastEvent = [kind |-> "loadingComplete", naturalWidth |-> 0]
    /\ fallbackCalls = 1

\* C38 as stated: once the reset for the current src has run, the source
\* given to the image is src or fallbackSrc; it is fallbackSrc exactly when
\* hasTriedFallback is true and src exactly when hasTriedFallback is false.
C38_SourceFollowsFlag ==
    ~effectPending =>
        /\ currentSrc \in {src, fallbackSrc}
        /\ hasTriedFallback <=> (currentSrc = fallbackSrc)
        /\ ~hasTriedFallback <=> (currentSrc = src)

\* C38, amended: once the reset for the current src has run, the source
\* given to the image is src or fallbackSrc; it is src exactly when
\* hasTriedFallback is false, and it is fallbackSrc exactly when
\* hasTriedFallback is true or src is itself fallbackSrc.
C38_SourceFollowsFlagUnlessSame ==
    ~effectPending =>
        /\ currentSrc \in {src, fallbackSrc}
        /\ ~hasTriedFallback <=> (currentSrc = src)
        /\ (hasTriedFallback \/ src = fallbackSrc) <=> (currentSrc = fallbackSrc)

\* After a change of src and its reset a failure switched to the fallback.
C38_Witness ==
    /\ ~effectPending
    /\ srcChanges >= 1
    /\ FallbackDiffers
    /\ hasTriedFallback
    /\ currentSrc = fallbackSrc
    /\ ~showAlternativeFallback
    /\ events = 1

=============================================================================
